---- MODULE Spec2Model ----
(***************************************************************************)
(* A state-machine model of the ChangerAI single-page application          *)
(* (src/unnamed/part_000): the App component's state, the API-key gate,    *)
(* the three image generators, the text helpers, the child components      *)
(* (FilterStudio, PromptInspector, BrushEditor, AdvancedCanvas) and the    *)
(* asynchronous completions of requests, file reads and key dialogs.       *)
(*                                                                         *)
(* Conventions.  An event handler runs atomically on the state of the      *)
(* latest render.  An async function is split at its await: the part up    *)
(* to the await is one action that records the values its closure          *)
(* captured in a request record, the part after the await is a second      *)
(* action that uses the captured values for plain reads and the current    *)
(* state for functional updates (setHistory(prev => ...)).  A state        *)
(* setter of a component that has been unmounted has no effect.            *)
(***************************************************************************)
EXTENDS Integers, Sequences, FiniteSets, TLC

\* ------------------------------------------------------------------ bounds

\* requests to the external model that may be issued in one behaviour
MaxReq == 2
\* file reads (FileReader.readAsDataURL) that may be started in one behaviour
MaxReads == 2
\* key-selection dialogs that may be opened in one behaviour
MaxConnect == 1
\* largest value of the millisecond clock read by Date.now()
MaxTime == 1
\* user text edits (onChange of an input, a preset) in one behaviour
MaxEdits == 1
\* nodes on the advanced canvas
MaxNodes == 2
\* the nodes of a node graph in a session that only uses the node graph
MaxCanvasNodes == 3

\* ------------------------------------------------------------------ values

\* null / undefined of a nullable image or text
Null == [null |-> TRUE]
\* the empty string passed as an image prop (originalImage || ... || '')
EmptyString == [empty |-> TRUE]

Falsy(x) == x \in {Null, EmptyString}

PNG == <<"image", "png">>
JPEG == <<"image", "jpeg">>
PLAIN == <<"text", "plain">>

\* the files a user can pick for the k-th file read of a behaviour: an image
\* whose content no earlier read has seen, or a file that is no image
Files(k) ==
  { [type |-> JPEG, content |-> [src |-> "file", n |-> k]],
    [type |-> PLAIN, content |-> [src |-> "file", n |-> k]] }

\* variant: every file is taken for an image
IsImageTypeAny(type) == TRUE

\* file.type.startsWith('image/')
IsImageType(type) == type[1] = "image"

\* FileReader.readAsDataURL: data:<mime>;base64,<content>
ReadAsDataURL(file) == [mime |-> file.type, data |-> file.content]

\* dataUrl.split(',')[1]
Base64Of(dataUrl) == dataUrl.data
\* dataUrl.split(';')[0].split(':')[1]
MimeOf(dataUrl) == dataUrl.mime
\* `data:image/png;base64,${generatedBase64}`
PngDataUrl(generatedBase64) == [mime |-> PNG, data |-> generatedBase64]

\* texts are sequences of tokens; " " is white space
UserTexts == { <<>>, <<" ">>, <<"sky">> }
ResponseTexts == { <<>>, <<" ", "dusk", " ">> }

RECURSIVE TrimLeft(_)
TrimLeft(s) == IF s # <<>> /\ Head(s) = " " THEN TrimLeft(Tail(s)) ELSE s

RECURSIVE TrimRight(_)
TrimRight(s) ==
  IF s # <<>> /\ s[Len(s)] = " " THEN TrimRight(SubSeq(s, 1, Len(s) - 1)) ELSE s

\* String.prototype.trim
Trim(s) == TrimRight(TrimLeft(s))

MODELS ==
  << [id |-> "nano-banana-1", apiModel |-> "gemini-2.5-flash-image", disabled |-> FALSE],
     [id |-> "nano-banana-2", apiModel |-> "gemini-3-pro-image-preview", disabled |-> TRUE] >>

\* (MODELS.find(m => m.id === id) || MODELS[0]).apiModel
ApiModel(id) ==
  IF \E i \in 1..Len(MODELS) : MODELS[i].id = id
  THEN MODELS[CHOOSE i \in 1..Len(MODELS) :
                MODELS[i].id = id /\ \A j \in 1..(i - 1) : MODELS[j].id # id].apiModel
  ELSE MODELS[1].apiModel

\* ------------------------------------------------------------------ errors

Upper == << "A", "B", "C", "D", "E", "F", "G", "H", "I", "J", "K", "L", "M",
            "N", "O", "P", "Q", "R", "S", "T", "U", "V", "W", "X", "Y", "Z" >>
Lower == << "a", "b", "c", "d", "e", "f", "g", "h", "i", "j", "k", "l", "m",
            "n", "o", "p", "q", "r", "s", "t", "u", "v", "w", "x", "y", "z" >>

ToLowerChar(c) ==
  IF \E i \in 1..26 : Upper[i] = c THEN Lower[CHOOSE i \in 1..26 : Upper[i] = c] ELSE c

\* String.prototype.toLowerCase on a sequence of characters
ToLowerCase(s) == [i \in 1..Len(s) |-> ToLowerChar(s[i])]

\* String.prototype.includes on sequences of characters
Includes(s, pat) ==
  \E i \in 0..(Len(s) - Len(pat)) : SubSeq(s, i + 1, i + Len(pat)) = pat

\* the thrown values: toString() and, for objects, JSON.stringify()
Errors ==
  { \* the status in the message
    [str |-> <<"4", "0", "3">>, isObject |-> TRUE, json |-> <<"{", "}">>],
    \* the status only in the serialised object
    [str |-> <<"E", "r", "r">>, isObject |-> TRUE,
     json |-> <<"P", "E", "R", "M", "I", "S", "S", "I", "O", "N", "_",
                "D", "E", "N", "I", "E", "D">>],
    \* a server error
    [str |-> <<"5", "0", "0">>, isObject |-> TRUE, json |-> <<"{", "}">>] }

\* new Error("No image generated.")
NoImageError ==
  [str |-> <<"E", "r", "r", "o", "r", ":", " ", "N", "o", " ", "i", "m", "a", "g", "e",
             " ", "g", "e", "n", "e", "r", "a", "t", "e", "d", ".">>,
   isObject |-> TRUE, json |-> <<"{", "}">>]

isAuthError(err) ==
  LET str == ToLowerCase(err.str \o (IF err.isObject THEN err.json ELSE <<>>))
  IN \/ Includes(str, <<"4", "0", "3">>)
     \/ Includes(str, <<"p", "e", "r", "m", "i", "s", "s", "i", "o", "n", "_",
                        "d", "e", "n", "i", "e", "d">>)
     \/ Includes(str, <<"p", "e", "r", "m", "i", "s", "s", "i", "o", "n", " ",
                        "d", "e", "n", "i", "e", "d">>)
     \/ Includes(str, <<"n", "o", "t", " ", "f", "o", "u", "n", "d">>)

\* --------------------------------------------------------------- responses

\* response.candidates?.[0]?.content?.parts of an image request: absent, or a
\* list of parts, each a text part or an inlineData part carrying base64 data
TextPart == [inlineData |-> Null]
ImagePart(data) == [inlineData |-> [data |-> data]]
\* an inlineData part whose data is the empty string
EmptyData == [src |-> "empty", n |-> 0]

ImageResponses(id) ==
  LET payload == [src |-> "model", n |-> id]
  IN { [parts |-> Null],
       [parts |-> [list |-> <<ImagePart(EmptyData)>>]],
       [parts |-> [list |-> <<TextPart, ImagePart(payload)>>]] }

RECURSIVE FirstInlineData(_)
FirstInlineData(list) ==
  IF list = <<>> THEN Null
  ELSE IF Head(list).inlineData # Null THEN Head(list).inlineData.data
  ELSE FirstInlineData(Tail(list))

\* the loop over response.candidates[0].content.parts: null when nothing found
GeneratedBase64(response) ==
  IF response.parts = Null THEN Null ELSE FirstInlineData(response.parts.list)

\* if (generatedBase64): null and the empty string are falsy
HasImage(response) == GeneratedBase64(response) \notin {Null, EmptyData}

\* responses of a text request: response.text undefined/empty, or a text
TextResponses == { [text |-> t] : t \in ResponseTexts }

\* ------------------------------------------------------------------- state

VARIABLES
  \* App (useState)
  hasApiKey, isInitialLoad, originalImage, generatedImage, prompt, loading,
  enhancing, error, blending, isCompareMode, sceneRefImage, analyzingSceneRef,
  selectedModel, activeView, history, feedback, showFeedbackOptions,
  learningProfile,
  \* the state of the mounted child component (its initial value while unmounted)
  filterStudio, promptInspector, brushEditor, advancedCanvas,
  \* environment: window.aistudio, the key check, open key dialogs, requests
  \* awaiting the external model, file reads awaiting onload, Date.now()
  aistudio, keyCheck, connecting, inflight, readers, now,
  \* counters that bound a behaviour
  nextId, reads, edits,
  \* history variable: what each generation request saw when it was issued, kept
  \* while the request is in flight and while its result exists
  issued

appVars ==
  << hasApiKey, isInitialLoad, originalImage, generatedImage, prompt, loading,
     enhancing, error, isCompareMode, sceneRefImage, analyzingSceneRef,
     selectedModel, activeView, history, feedback, showFeedbackOptions,
     blending, learningProfile >>
childVars == << filterStudio, promptInspector, brushEditor, advancedCanvas >>
envVars == << aistudio, keyCheck, connecting, inflight, readers, now >>
vars == << appVars, childVars, envVars, nextId, reads, edits, issued >>

FilterStudioInit ==
  [filterPrompt |-> <<>>, enhancing |-> FALSE, refImage |-> Null, analyzingRef |-> FALSE]
PromptInspectorInit == [jsonResult |-> Null, loading |-> FALSE]
\* BrushEditor: the prompt, the mask canvas (the set of strokes painted on
\* it, named by their number), canvasHistory, isDrawing, and the number of
\* snapshots pushed so far (strokes begun and clears)
BrushEditorInit ==
  [prompt |-> <<>>, canvas |-> {}, canvasHistory |-> <<>>, isDrawing |-> FALSE,
   pushed |-> 0]
AdvancedCanvasInit == [nodes |-> <<>>]
LearningProfileInit ==
  [lightingEmphasis |-> 0, blendingStrictness |-> 0, corrections |-> <<>>]

Init ==
  /\ hasApiKey = FALSE
  /\ isInitialLoad = TRUE
  /\ originalImage = Null
  /\ generatedImage = Null
  /\ prompt = <<>>
  /\ loading = FALSE
  /\ enhancing = FALSE
  /\ error = ""
  /\ isCompareMode = FALSE
  /\ sceneRefImage = Null
  /\ analyzingSceneRef = FALSE
  /\ selectedModel = "nano-banana-1"
  /\ blending = 50
  /\ learningProfile = LearningProfileInit
  /\ activeView = "editor"
  /\ history = <<>>
  /\ feedback = "null"
  /\ showFeedbackOptions = FALSE
  /\ filterStudio = FilterStudioInit
  /\ promptInspector = PromptInspectorInit
  /\ brushEditor = BrushEditorInit
  /\ advancedCanvas = AdvancedCanvasInit
  /\ aistudio \in BOOLEAN
  /\ keyCheck = "pending"
  /\ connecting = 0
  /\ inflight = {}
  /\ readers = {}
  /\ now = 0
  /\ nextId = 1
  /\ reads = 0
  /\ edits = 0
  /\ issued = {}

\* ---------------------------------------------------------------- rendering

\* variant: the key gate is not consulted when choosing what to render
RenderedUngated(initialLoad, apiKey, view) ==
  IF initialLoad THEN "spinner" ELSE view

\* what App renders: the spinner, the connect screen, or the active view
Rendered(initialLoad, apiKey, view) ==
  IF initialLoad THEN "spinner" ELSE IF ~apiKey THEN "connect" ELSE view

View == Rendered(isInitialLoad, hasApiKey, activeView)

\* originalImage || history[0]?.original || ''
ImageProp(original, hist) ==
  IF original # Null THEN original
  ELSE IF Len(hist) > 0 THEN hist[1].original
  ELSE EmptyString

\* variant: the canvas is handed the original image alone
CanvasImagePropOriginalOnly(original, hist) ==
  original

\* originalImage || (history[0]?.original || null)
CanvasImageProp(original, hist) ==
  IF original # Null THEN original
  ELSE IF Len(hist) > 0 THEN hist[1].original
  ELSE Null

RootNode(image) ==
  [id |-> <<"root">>, type |-> "source", x |-> 100, y |-> 200, parentId |-> <<>>,
   data |-> [image |-> image, prompt |-> <<>>, status |-> "idle", result |-> Null,
             model |-> "nano-banana-1"]]

\* the request PromptInspector.analyzeImage sends
AnalyzeRequest(id, image) ==
  [id |-> id, op |-> "analyzeImage", owner |-> "inspector", live |-> TRUE,
   sent |-> [model |-> "gemini-3-pro-preview",
             mimeType |-> MimeOf(image), data |-> Base64Of(image)]]

\* a component that leaves the screen is unmounted: its pending callbacks
\* still run, but its state setters no longer have any effect
Orphan(set, old) ==
  { IF r.owner = old THEN [r EXCEPT !.live = FALSE] ELSE r : r \in set }

\* The re-render that follows a handler.  reqs, rds and nid are the requests,
\* file reads and next request id the handler leaves; fs, pi, be, ac are the
\* child states it leaves should the child stay mounted.  A child that is
\* mounted starts from its initial state and runs its mount effect:
\* PromptInspector starts an analysis, AdvancedCanvas creates the root node.
Render(reqs, rds, nid, fs, pi, be, ac) ==
  LET old == View
      new == Rendered(isInitialLoad', hasApiKey', activeView')
      same == new = old
      image == ImageProp(originalImage', history')
      analyze == ~same /\ new = "inspector" /\ ~Falsy(image)
      kept == IF same THEN reqs ELSE Orphan(reqs, old)
  IN /\ analyze => nid <= MaxReq
     /\ filterStudio' = IF new = "filters" /\ same THEN fs ELSE FilterStudioInit
     /\ brushEditor' = IF new = "brush" /\ same THEN be ELSE BrushEditorInit
     /\ promptInspector' =
          IF new # "inspector" THEN PromptInspectorInit
          ELSE IF same THEN pi
          ELSE IF analyze THEN [jsonResult |-> Null, loading |-> TRUE]
          ELSE PromptInspectorInit
     /\ advancedCanvas' =
          IF new # "advanced" THEN AdvancedCanvasInit
          ELSE IF same THEN ac
          ELSE [nodes |-> <<RootNode(CanvasImageProp(originalImage', history'))>>]
     /\ inflight' = IF analyze THEN kept \cup {AnalyzeRequest(nid, image)} ELSE kept
     /\ readers' = IF same THEN rds ELSE Orphan(rds, old)
     /\ nextId' = IF analyze THEN nid + 1 ELSE nid

\* a handler that touches no child state, request or file read
RenderOnly == Render(inflight, readers, nextId, filterStudio, promptInspector,
                     brushEditor, advancedCanvas)

\* ------------------------------------------------------------ the key gate

\* variant: where window.aistudio is absent the gate opens by itself
KeyCheckResolveOpen(has) ==
  /\ keyCheck = "pending"
  /\ aistudio => has \in BOOLEAN
  /\ ~aistudio => has = FALSE
  /\ keyCheck' = "done"
  /\ hasApiKey' = IF aistudio THEN has ELSE TRUE
  /\ isInitialLoad' = FALSE
  /\ UNCHANGED << originalImage, generatedImage, prompt, loading, enhancing, error,
                  isCompareMode, sceneRefImage, analyzingSceneRef, selectedModel,
                  blending, learningProfile, activeView, history, feedback,
                  showFeedbackOptions >>
  /\ UNCHANGED << aistudio, connecting, now, reads, edits, issued >>
  /\ RenderOnly

\* useEffect(check): without window.aistudio the check falls through at once;
\* with it, hasSelectedApiKey() resolves with a boolean
KeyCheckResolve(has) ==
  /\ keyCheck = "pending"
  /\ aistudio => has \in BOOLEAN
  /\ ~aistudio => has = FALSE
  /\ keyCheck' = "done"
  /\ hasApiKey' = IF aistudio THEN has ELSE hasApiKey
  /\ isInitialLoad' = FALSE
  /\ UNCHANGED << originalImage, generatedImage, prompt, loading, enhancing, error,
                  isCompareMode, sceneRefImage, analyzingSceneRef, selectedModel,
                  blending, learningProfile, activeView, history, feedback,
                  showFeedbackOptions >>
  /\ UNCHANGED << aistudio, connecting, now, reads, edits, issued >>
  /\ RenderOnly

\* hasSelectedApiKey() rejects: check() ends before setIsInitialLoad(false)
KeyCheckReject ==
  /\ keyCheck = "pending"
  /\ aistudio
  /\ keyCheck' = "rejected"
  /\ UNCHANGED << appVars, childVars, aistudio, connecting, inflight, readers, now,
                  nextId, reads, edits, issued >>

\* variant: the button opens the gate before the dialog has resolved
handleConnectAtOnce ==
  /\ View = "connect"
  /\ aistudio
  /\ connecting < MaxConnect
  /\ connecting' = connecting + 1
  /\ hasApiKey' = TRUE
  /\ UNCHANGED << isInitialLoad, originalImage, generatedImage, prompt, loading,
                  enhancing, error, isCompareMode, sceneRefImage, analyzingSceneRef,
                  selectedModel, blending, learningProfile, activeView, history,
                  feedback, showFeedbackOptions >>
  /\ UNCHANGED << aistudio, keyCheck, now, reads, edits, issued >>
  /\ RenderOnly

\* the Connect API Key button: shown only on the connect screen
handleConnect ==
  /\ View = "connect"
  /\ aistudio
  /\ connecting < MaxConnect
  /\ connecting' = connecting + 1
  /\ UNCHANGED << appVars, childVars, aistudio, keyCheck, inflight, readers, now,
                  nextId, reads, edits, issued >>

\* the button pressed where window.aistudio is absent: nothing happens
handleConnectNoStudio ==
  /\ View = "connect"
  /\ ~aistudio
  /\ UNCHANGED vars

\* variant: connecting a key starts over in the editor
ConnectResolveRestart ==
  /\ connecting > 0
  /\ connecting' = connecting - 1
  /\ hasApiKey' = TRUE
  /\ activeView' = "editor"
  /\ UNCHANGED << isInitialLoad, originalImage, generatedImage, prompt, loading,
                  enhancing, error, isCompareMode, sceneRefImage, analyzingSceneRef,
                  selectedModel, blending, learningProfile, history, feedback,
                  showFeedbackOptions >>
  /\ UNCHANGED << aistudio, keyCheck, now, reads, edits, issued >>
  /\ RenderOnly

\* openSelectKey() resolves: setHasApiKey(true)
ConnectResolve ==
  /\ connecting > 0
  /\ connecting' = connecting - 1
  /\ hasApiKey' = TRUE
  /\ UNCHANGED << isInitialLoad, originalImage, generatedImage, prompt, loading,
                  enhancing, error, isCompareMode, sceneRefImage, analyzingSceneRef,
                  selectedModel, blending, learningProfile, activeView, history,
                  feedback, showFeedbackOptions >>
  /\ UNCHANGED << aistudio, keyCheck, now, reads, edits, issued >>
  /\ RenderOnly

\* openSelectKey() rejects: the handler ends without setHasApiKey
ConnectReject ==
  /\ connecting > 0
  /\ connecting' = connecting - 1
  /\ UNCHANGED << appVars, childVars, aistudio, keyCheck, inflight, readers, now,
                  nextId, reads, edits, issued >>

\* -------------------------------------------------------------- navigation

\* the nav bar is part of the editor and gallery views only
NavShown == View \in {"editor", "gallery"}

\* variant: the mode buttons are shown without an original image
NavTargetUnguarded(view) == view

\* onClick={() => originalImage && setActiveView(view)} for Brush, Filters and
\* Prompt; onClick={() => setActiveView(view)} for Advanced and Gallery
NavTarget(view) ==
  IF view \in {"brush", "filters", "inspector"}
  THEN IF originalImage # Null THEN view ELSE activeView
  ELSE view

Navigate(view) ==
  /\ NavShown
  /\ view \in {"brush", "filters", "inspector", "advanced", "gallery"}
  /\ activeView' = NavTarget(view)
  /\ UNCHANGED << hasApiKey, isInitialLoad, originalImage, generatedImage, prompt,
                  loading, enhancing, error, isCompareMode, sceneRefImage,
                  analyzingSceneRef, selectedModel, blending, learningProfile, history,
                  feedback, showFeedbackOptions >>
  /\ UNCHANGED << aistudio, keyCheck, connecting, now, reads, edits, issued >>
  /\ RenderOnly

\* onBack of a child view, and Back to Studio of the gallery
Back ==
  /\ View \in {"advanced", "brush", "inspector", "filters", "gallery"}
  /\ activeView' = "editor"
  /\ UNCHANGED << hasApiKey, isInitialLoad, originalImage, generatedImage, prompt,
                  loading, enhancing, error, isCompareMode, sceneRefImage,
                  analyzingSceneRef, selectedModel, blending, learningProfile, history,
                  feedback, showFeedbackOptions >>
  /\ UNCHANGED << aistudio, keyCheck, connecting, now, reads, edits, issued >>
  /\ RenderOnly

\* variant: a reset also forgets what the dislikes taught
handleResetForgets ==
  /\ NavShown
  /\ originalImage' = Null
  /\ generatedImage' = Null
  /\ sceneRefImage' = Null
  /\ prompt' = <<>>
  /\ error' = ""
  /\ feedback' = "null"
  /\ showFeedbackOptions' = FALSE
  /\ isCompareMode' = FALSE
  /\ activeView' = "editor"
  /\ learningProfile' = LearningProfileInit
  /\ UNCHANGED << hasApiKey, isInitialLoad, loading, enhancing, analyzingSceneRef,
                  selectedModel, blending, history >>
  /\ UNCHANGED << aistudio, keyCheck, connecting, now, reads, edits, issued >>
  /\ RenderOnly

\* the logo, Homepage, Close and Start Creating buttons
handleReset ==
  /\ NavShown
  /\ originalImage' = Null
  /\ generatedImage' = Null
  /\ sceneRefImage' = Null
  /\ prompt' = <<>>
  /\ error' = ""
  /\ feedback' = "null"
  /\ showFeedbackOptions' = FALSE
  /\ isCompareMode' = FALSE
  /\ activeView' = "editor"
  /\ UNCHANGED << hasApiKey, isInitialLoad, loading, enhancing, analyzingSceneRef,
                  selectedModel, blending, learningProfile, history >>
  /\ UNCHANGED << aistudio, keyCheck, connecting, now, reads, edits, issued >>
  /\ RenderOnly

\* a gallery tile: onClick={() => loadFromHistory(item)}
loadFromHistory(i) ==
  /\ View = "gallery"
  /\ i \in 1..Len(history)
  /\ originalImage' = history[i].original
  /\ generatedImage' = history[i].generated
  /\ prompt' = history[i].prompt
  /\ activeView' = "editor"
  /\ UNCHANGED << hasApiKey, isInitialLoad, loading, enhancing, error, isCompareMode,
                  sceneRefImage, analyzingSceneRef, selectedModel, blending,
                  learningProfile, history, feedback, showFeedbackOptions >>
  /\ UNCHANGED << aistudio, keyCheck, connecting, now, reads, edits, issued >>
  /\ RenderOnly

\* ------------------------------------------------------------- file uploads

FileRead(id, kind, owner, file) ==
  [id |-> id, kind |-> kind, owner |-> owner, live |-> TRUE, file |-> file]

\* the upload input of the start screen (rendered while originalImage is null)
handleFile(file) ==
  /\ View = "editor"
  /\ originalImage = Null
  /\ IF ~IsImageType(file.type)
     THEN /\ error' = "Unsupported file format."
          /\ UNCHANGED << readers, reads >>
     ELSE /\ reads < MaxReads
          /\ error' = error
          /\ readers' = readers \cup {FileRead(reads + 1, "handleFile", "App", file)}
          /\ reads' = reads + 1
  /\ UNCHANGED << hasApiKey, isInitialLoad, originalImage, generatedImage, prompt,
                  loading, enhancing, isCompareMode, sceneRefImage, analyzingSceneRef,
                  selectedModel, blending, learningProfile, activeView, history,
                  feedback, showFeedbackOptions >>
  /\ UNCHANGED << childVars, aistudio, keyCheck, connecting, inflight, now, nextId,
                  edits, issued >>

\* reader.onload of handleFile
handleFileLoaded(rd) ==
  /\ rd \in readers
  /\ rd.kind = "handleFile"
  /\ originalImage' = ReadAsDataURL(rd.file)
  /\ generatedImage' = Null
  /\ feedback' = "null"
  /\ showFeedbackOptions' = FALSE
  /\ error' = ""
  /\ activeView' = "editor"
  /\ UNCHANGED << hasApiKey, isInitialLoad, prompt, loading, enhancing, isCompareMode,
                  sceneRefImage, analyzingSceneRef, selectedModel, blending,
                  learningProfile, history >>
  /\ UNCHANGED << aistudio, keyCheck, connecting, now, reads, edits, issued >>
  /\ Render(inflight, readers \ {rd}, nextId, filterStudio, promptInspector,
            brushEditor, advancedCanvas)

\* ------------------------------------------------- App: image generation

GenerationOps == {"generateNewBackground", "generateWithMask", "applyFilter"}

\* what an inlineData part of a request carries
InlineData(dataUrl) == [mimeType |-> MimeOf(dataUrl), data |-> Base64Of(dataUrl)]

\* the mask BrushEditor.getMaskBase64 draws: canvas.toDataURL('image/png')
MaskDataUrl == [mime |-> PNG, data |-> [src |-> "mask", n |-> 0]]

\* variant: a generator sends the previous result when there is one
GenerationRequestFromResult(id, op, text, extra) ==
  [id |-> id, op |-> op, owner |-> "App", live |-> TRUE,
   originalImage |-> originalImage, prompt |-> text, selectedModel |-> selectedModel,
   sent |-> [model |-> ApiModel(selectedModel), text |-> text,
             image |-> IF generatedImage # Null THEN InlineData(generatedImage)
                       ELSE InlineData(originalImage),
             extra |-> extra]]

\* The request record of a generator: the values its closure captured
\* (originalImage, the prompt argument, selectedModel) and what it sent.
GenerationRequest(id, op, text, extra) ==
  [id |-> id, op |-> op, owner |-> "App", live |-> TRUE,
   originalImage |-> originalImage, prompt |-> text, selectedModel |-> selectedModel,
   sent |-> [model |-> ApiModel(selectedModel), text |-> text,
             image |-> InlineData(originalImage), extra |-> extra]]

\* what the history variable `issued` keeps of a request when it is issued
Snapshot(id, op, text) ==
  [id |-> id, op |-> op, originalImage |-> originalImage, prompt |-> text,
   selectedModel |-> selectedModel]

\* the common start of the three generators
StartGeneration(op, text, extra) ==
  /\ nextId <= MaxReq
  /\ loading' = TRUE
  /\ error' = ""
  /\ issued' = issued \cup {Snapshot(nextId, op, text)}
  /\ UNCHANGED << hasApiKey, isInitialLoad, originalImage, generatedImage, prompt,
                  enhancing, isCompareMode, sceneRefImage, analyzingSceneRef,
                  selectedModel, blending, learningProfile, activeView, history >>
  /\ UNCHANGED << aistudio, keyCheck, connecting, now, reads, edits >>
  /\ Render(inflight \cup {GenerationRequest(nextId, op, text, extra)}, readers,
            nextId + 1, filterStudio, promptInspector, brushEditor, advancedCanvas)

\* the range input of the blending slider: min="0" max="100"
SliderLevels == 0..100

\* variant: level 30 still selects the cutout instruction
BlendingInstructionInclusive(level) ==
  IF level <= 30
  THEN "Keep original subject lighting and colors strictly. Minimal blending with background. Cutout aesthetic."
  ELSE IF level > 70
  THEN "Aggressive blending. Heavily relight and color-grade the subject to fully immerse them in the new atmosphere. Modify subject lighting significantly."
  ELSE "Balanced blending. Relight subject naturally to match the environment."

\* if (blending < 30) ... else if (blending > 70) ... else ...
BlendingInstruction(level) ==
  IF level < 30
  THEN "Keep original subject lighting and colors strictly. Minimal blending with background. Cutout aesthetic."
  ELSE IF level > 70
  THEN "Aggressive blending. Heavily relight and color-grade the subject to fully immerse them in the new atmosphere. Modify subject lighting significantly."
  ELSE "Balanced blending. Relight subject naturally to match the environment."

\* `ADAPTIVE LEARNING: ${learningProfile.corrections.join('. ')}`, or ""
AdaptiveInstructions(profile) ==
  IF Len(profile.corrections) > 0
  THEN <<"ADAPTIVE LEARNING: ">> \o profile.corrections
  ELSE <<>>

\* what generateNewBackground sends besides the prompt and the image: the
\* BLENDING line of fullPrompt, the adaptive instructions, the scene reference
BackgroundExtra ==
  [blendingInstruction |-> BlendingInstruction(blending),
   strength |-> blending,
   adaptiveInstructions |-> AdaptiveInstructions(learningProfile),
   sceneRef |-> IF sceneRefImage # Null THEN InlineData(sceneRefImage) ELSE Null]

\* the Transform button: disabled={loading || !prompt}
TransformEnabled == ~(loading \/ prompt = <<>>)

generateNewBackground ==
  /\ View = "editor"
  /\ originalImage # Null
  /\ TransformEnabled
  \* if (!originalImage || !prompt.trim()) return;
  /\ Trim(prompt) # <<>>
  /\ feedback' = "null"
  /\ showFeedbackOptions' = FALSE
  /\ StartGeneration("generateNewBackground", prompt, BackgroundExtra)

\* BrushEditor's Generate button (disabled={loading || !prompt}) and the Enter
\* key of its prompt input (onKeyDown: e.key === 'Enter' && handleGenerateClick())
BrushGenerateEnabled(via) ==
  IF via = "button" THEN ~(loading \/ brushEditor.prompt = <<>>) ELSE TRUE

generateWithMask(via) ==
  /\ View = "brush"
  /\ via \in {"button", "enter"}
  /\ BrushGenerateEnabled(via)
  \* handleGenerateClick: if (mask && prompt); the canvas exists while image is set
  /\ ~Falsy(ImageProp(originalImage, history))
  /\ brushEditor.prompt # <<>>
  \* if (!originalImage) return;
  /\ originalImage # Null
  /\ UNCHANGED << feedback, showFeedbackOptions >>
  /\ StartGeneration("generateWithMask", brushEditor.prompt, InlineData(MaskDataUrl))

\* FilterStudio's Apply button: disabled={loading || !filterPrompt}
ApplyEnabled == ~(loading \/ filterStudio.filterPrompt = <<>>)

applyFilter ==
  /\ View = "filters"
  /\ ApplyEnabled
  \* handleApply: if (filterPrompt)
  /\ filterStudio.filterPrompt # <<>>
  \* if (!originalImage) return;
  /\ originalImage # Null
  /\ UNCHANGED << feedback, showFeedbackOptions >>
  /\ StartGeneration("applyFilter", filterStudio.filterPrompt, Null)

\* how a request ends: generateContent resolves with a response or throws
Outcomes(responses) ==
  { [threw |-> FALSE, response |-> x] : x \in responses }
    \cup { [threw |-> TRUE, err |-> e] : e \in Errors }

\* the value the catch block receives, when it runs
Caught(o) == IF o.threw THEN o.err ELSE NoImageError

GenerationFailedMessage(op) ==
  CASE op = "generateNewBackground" -> "Error generating image. Please try again."
    [] op = "generateWithMask" -> "Error generating edit. Please try again."
    [] op = "applyFilter" -> "Failed to apply filter."

\* variant: the item keeps the text as it was entered
HistoryPromptEntered(r) == r.prompt

\* the prompt field of the history item a generator records
HistoryPrompt(r) ==
  IF r.op = "applyFilter" THEN <<"Filter:", " ">> \o r.prompt ELSE r.prompt

\* variant: the item is built from the state at completion
HistoryItemAtCompletion(r, newImage) ==
  [id |-> now, original |-> originalImage, generated |-> newImage,
   prompt |-> prompt, timestamp |-> now, model |-> selectedModel]

\* the history item: id is Date.now(), timestamp the clock's time of day
HistoryItem(r, newImage) ==
  [id |-> now, original |-> r.originalImage, generated |-> newImage,
   prompt |-> HistoryPrompt(r), timestamp |-> now, model |-> r.selectedModel]

\* variant: the result is not recorded
HistoryPushNone(item, prev) == prev

\* variant: setHistory(prev => [...prev, item])
HistoryPushLast(item, prev) == prev \o <<item>>

\* setHistory(prev => [item, ...prev])
HistoryPush(item, prev) == <<item>> \o prev

\* the catch block of the generators
GenerationCatchGate(err) == IF isAuthError(err) THEN FALSE ELSE hasApiKey
\* variant: the catch block sets no message
GenerationCatchErrorSilent(op, err) == error

GenerationCatchError(op, err) ==
  IF isAuthError(err) THEN error ELSE GenerationFailedMessage(op)

\* variant: no generator changes the view
ViewAfterGenerationStay(op) == activeView

\* the view a successful generator leaves: generateWithMask and applyFilter go
\* back to the editor, generateNewBackground (started there) sets no view
ViewAfterGeneration(op) ==
  IF op = "generateNewBackground" THEN activeView ELSE "editor"

\* the part of a generator after its await
CompleteGeneration(r, o) ==
  LET ok == ~o.threw /\ HasImage(o.response)
      newImage == PngDataUrl(GeneratedBase64(o.response))
  IN /\ r \in inflight
     /\ r.op \in GenerationOps
     /\ o \in Outcomes(ImageResponses(r.id))
     /\ IF ok
        THEN /\ generatedImage' = newImage
             /\ history' = HistoryPush(HistoryItem(r, newImage), history)
             /\ activeView' = ViewAfterGeneration(r.op)
             /\ UNCHANGED << hasApiKey, error, issued >>
        ELSE /\ hasApiKey' = GenerationCatchGate(Caught(o))
             /\ error' = GenerationCatchError(r.op, Caught(o))
             /\ issued' = { q \in issued : q.id # r.id }
             /\ UNCHANGED << generatedImage, history, activeView >>
     /\ loading' = FALSE
     /\ UNCHANGED << isInitialLoad, originalImage, prompt, enhancing, isCompareMode,
                     sceneRefImage, analyzingSceneRef, selectedModel, blending,
                     learningProfile, feedback, showFeedbackOptions >>
     /\ UNCHANGED << aistudio, keyCheck, connecting, now, reads, edits >>
     /\ Render(inflight \ {r}, readers, nextId, filterStudio, promptInspector,
               brushEditor, advancedCanvas)

\* --------------------------------------------------- App: text and prompts

TextRequest(id, op, owner, sent) ==
  [id |-> id, op |-> op, owner |-> owner, live |-> TRUE, sent |-> sent]

\* if (response.text) setX(response.text.trim()): the empty text is falsy
TextAfter(response, current) ==
  IF response.text # <<>> THEN Trim(response.text) ELSE current

\* the Scene Description textarea and the Pro Suggestions presets
setPrompt(text) ==
  /\ View = "editor"
  /\ originalImage # Null
  /\ text \in UserTexts
  /\ text # prompt
  /\ edits < MaxEdits
  /\ edits' = edits + 1
  /\ prompt' = text
  /\ UNCHANGED << hasApiKey, isInitialLoad, originalImage, generatedImage, loading,
                  enhancing, error, isCompareMode, sceneRefImage, analyzingSceneRef,
                  selectedModel, blending, learningProfile, activeView, history,
                  feedback, showFeedbackOptions >>
  /\ UNCHANGED << childVars, envVars, nextId, reads, issued >>

\* the Enhance button: disabled={!prompt.trim() || enhancing}
enhancePrompt ==
  /\ View = "editor"
  /\ originalImage # Null
  /\ ~(Trim(prompt) = <<>> \/ enhancing)
  /\ nextId <= MaxReq
  /\ enhancing' = TRUE
  /\ error' = ""
  /\ UNCHANGED << hasApiKey, isInitialLoad, originalImage, generatedImage, prompt,
                  loading, isCompareMode, sceneRefImage, analyzingSceneRef,
                  selectedModel, blending, learningProfile, activeView, history,
                  feedback, showFeedbackOptions >>
  /\ UNCHANGED << aistudio, keyCheck, connecting, now, reads, edits, issued >>
  /\ Render(inflight \cup {TextRequest(nextId, "enhancePrompt", "App",
                                       [model |-> "gemini-2.5-flash", text |-> prompt])},
            readers, nextId + 1, filterStudio, promptInspector, brushEditor,
            advancedCanvas)

\* the Reference Scenario input of the editor
handleSceneRefUpload(file) ==
  /\ View = "editor"
  /\ originalImage # Null
  \* if (!file.type.startsWith('image/')) return;
  /\ IsImageType(file.type)
  /\ reads < MaxReads
  /\ reads' = reads + 1
  /\ readers' = readers \cup {FileRead(reads + 1, "handleSceneRefUpload", "App", file)}
  /\ UNCHANGED << appVars, childVars, aistudio, keyCheck, connecting, inflight, now,
                  nextId, edits, issued >>

\* reader.onload of handleSceneRefUpload: setSceneRefImage, then analyzeSceneRef
\* up to its await
analyzeSceneRef(rd) ==
  LET base64 == ReadAsDataURL(rd.file)
  IN /\ rd \in readers
     /\ rd.kind = "handleSceneRefUpload"
     /\ nextId <= MaxReq
     /\ sceneRefImage' = base64
     /\ analyzingSceneRef' = TRUE
     /\ UNCHANGED << hasApiKey, isInitialLoad, originalImage, generatedImage, prompt,
                     loading, enhancing, error, isCompareMode, selectedModel, blending,
                     learningProfile, activeView, history, feedback,
                     showFeedbackOptions >>
     /\ UNCHANGED << aistudio, keyCheck, connecting, now, reads, edits, issued >>
     /\ Render(inflight \cup {TextRequest(nextId, "analyzeSceneRef", "App",
                                          [model |-> "gemini-2.5-flash",
                                           image |-> InlineData(base64)])},
               readers \ {rd}, nextId + 1, filterStudio, promptInspector, brushEditor,
               advancedCanvas)

\* the catch blocks of enhancePrompt and analyzeSceneRef
TextCatchGate(err) == IF isAuthError(err) THEN FALSE ELSE hasApiKey
TextCatchError(op, err) ==
  IF op = "enhancePrompt" /\ ~isAuthError(err) THEN "Failed to enhance prompt." ELSE error

\* the part of enhancePrompt and of analyzeSceneRef after the await
CompleteAppText(r, o) ==
  /\ r \in inflight
  /\ r.op \in {"enhancePrompt", "analyzeSceneRef"}
  /\ o \in Outcomes(TextResponses)
  /\ IF ~o.threw
     THEN /\ prompt' = TextAfter(o.response, prompt)
          /\ UNCHANGED << hasApiKey, error >>
     ELSE /\ hasApiKey' = TextCatchGate(o.err)
          /\ error' = TextCatchError(r.op, o.err)
          /\ UNCHANGED prompt
  /\ enhancing' = IF r.op = "enhancePrompt" THEN FALSE ELSE enhancing
  /\ analyzingSceneRef' = IF r.op = "analyzeSceneRef" THEN FALSE ELSE analyzingSceneRef
  /\ UNCHANGED << isInitialLoad, originalImage, generatedImage, loading, isCompareMode,
                  sceneRefImage, selectedModel, blending, learningProfile, activeView,
                  history, feedback, showFeedbackOptions >>
  /\ UNCHANGED << aistudio, keyCheck, connecting, now, reads, edits, issued >>
  /\ Render(inflight \ {r}, readers, nextId, filterStudio, promptInspector,
            brushEditor, advancedCanvas)

\* ------------------------------------------------------------- BrushEditor

\* the prompt input of the brush view
BrushSetPrompt(text) ==
  /\ View = "brush"
  /\ text \in UserTexts
  /\ text # brushEditor.prompt
  /\ edits < MaxEdits
  /\ edits' = edits + 1
  /\ brushEditor' = [brushEditor EXCEPT !.prompt = text]
  /\ UNCHANGED << appVars, filterStudio, promptInspector, advancedCanvas, envVars,
                  nextId, reads, issued >>

\* strokes begun and clears in one stay in the brush view
MaxPushes == 6

\* [...prev.slice(-4), imageData]
PushSnapshot(prev, imageData) ==
  SubSeq(prev, IF Len(prev) > 4 THEN Len(prev) - 3 ELSE 1, Len(prev)) \o <<imageData>>

\* the frame of the handlers of the mask canvas
CanvasFrame ==
  UNCHANGED << appVars, filterStudio, promptInspector, advancedCanvas, envVars,
               nextId, reads, edits, issued >>

\* onMouseDown / onTouchStart of the mask canvas.  The updater passed to
\* setCanvasHistory reads the canvas when React runs it; the handler paints
\* nothing, so it reads the content from before the stroke.
startDrawing ==
  /\ View = "brush"
  /\ ~Falsy(ImageProp(originalImage, history))
  /\ ~brushEditor.isDrawing
  /\ brushEditor.pushed < MaxPushes
  /\ brushEditor' =
       [brushEditor EXCEPT
          !.isDrawing = TRUE,
          !.pushed = @ + 1,
          !.canvasHistory = PushSnapshot(@, brushEditor.canvas)]
  /\ CanvasFrame

\* onMouseMove / onTouchMove: if (!isDrawing) return; lineTo, stroke
draw ==
  /\ View = "brush"
  /\ brushEditor.isDrawing
  /\ brushEditor.pushed \notin brushEditor.canvas
  /\ brushEditor' = [brushEditor EXCEPT !.canvas = @ \cup {brushEditor.pushed}]
  /\ CanvasFrame

\* onMouseUp / onMouseLeave / onTouchEnd
stopDrawing ==
  /\ View = "brush"
  /\ brushEditor.isDrawing
  /\ brushEditor' = [brushEditor EXCEPT !.isDrawing = FALSE]
  /\ CanvasFrame

\* The Clear button.  setCanvasHistory is given an updater that calls
\* ctx.getImageData, and clearRect follows it in the handler: React runs the
\* updater at once when the component has no update pending (eager), and at
\* the next render otherwise, which is after clearRect.
clearCanvas(eager) ==
  /\ View = "brush"
  /\ ~Falsy(ImageProp(originalImage, history))
  /\ ~brushEditor.isDrawing
  /\ brushEditor.pushed < MaxPushes
  /\ brushEditor' =
       [brushEditor EXCEPT
          !.canvas = {},
          !.pushed = @ + 1,
          !.canvasHistory =
             PushSnapshot(@, IF eager THEN brushEditor.canvas ELSE {})]
  /\ CanvasFrame

\* the Undo button: disabled={canvasHistory.length === 0}
handleUndo ==
  /\ View = "brush"
  /\ ~Falsy(ImageProp(originalImage, history))
  /\ ~brushEditor.isDrawing
  /\ Len(brushEditor.canvasHistory) # 0
  /\ brushEditor' =
       [brushEditor EXCEPT
          !.canvas = brushEditor.canvasHistory[Len(brushEditor.canvasHistory)],
          !.canvasHistory = SubSeq(@, 1, Len(@) - 1)]
  /\ CanvasFrame

\* ------------------------------------------------------------ FilterStudio

\* the Custom Prompt textarea and the Quick Presets
setFilterPrompt(text) ==
  /\ View = "filters"
  /\ text \in UserTexts
  /\ text # filterStudio.filterPrompt
  /\ edits < MaxEdits
  /\ edits' = edits + 1
  /\ filterStudio' = [filterStudio EXCEPT !.filterPrompt = text]
  /\ UNCHANGED << appVars, promptInspector, brushEditor, advancedCanvas, envVars,
                  nextId, reads, issued >>

\* FilterStudio's Enhance button: disabled={!filterPrompt.trim() || enhancing}
handleEnhance ==
  /\ View = "filters"
  /\ ~(Trim(filterStudio.filterPrompt) = <<>> \/ filterStudio.enhancing)
  /\ nextId <= MaxReq
  /\ filterStudio' = [filterStudio EXCEPT !.enhancing = TRUE]
  /\ inflight' = inflight \cup
       {TextRequest(nextId, "handleEnhance", "filters",
                    [model |-> "gemini-2.5-flash", text |-> filterStudio.filterPrompt])}
  /\ nextId' = nextId + 1
  /\ UNCHANGED << appVars, promptInspector, brushEditor, advancedCanvas, aistudio,
                  keyCheck, connecting, readers, now, reads, edits, issued >>

\* the Style Match input
handleRefUpload(file) ==
  /\ View = "filters"
  \* if (!file.type.startsWith('image/')) return;
  /\ IsImageType(file.type)
  /\ reads < MaxReads
  /\ reads' = reads + 1
  /\ readers' = readers \cup {FileRead(reads + 1, "handleRefUpload", "filters", file)}
  /\ UNCHANGED << appVars, childVars, aistudio, keyCheck, connecting, inflight, now,
                  nextId, edits, issued >>

\* reader.onload of handleRefUpload: setRefImage, then analyzeRefStyle up to its
\* await; the request is sent even when FilterStudio has been unmounted
analyzeRefStyle(rd) ==
  LET base64 == ReadAsDataURL(rd.file)
  IN /\ rd \in readers
     /\ rd.kind = "handleRefUpload"
     /\ nextId <= MaxReq
     /\ filterStudio' = IF rd.live
                        THEN [filterStudio EXCEPT !.refImage = base64,
                                                  !.analyzingRef = TRUE]
                        ELSE filterStudio
     /\ inflight' = inflight \cup
          {[TextRequest(nextId, "analyzeRefStyle", "filters",
                        [model |-> "gemini-2.5-flash", image |-> InlineData(base64)])
             EXCEPT !.live = rd.live]}
     /\ readers' = readers \ {rd}
     /\ nextId' = nextId + 1
     /\ UNCHANGED << appVars, promptInspector, brushEditor, advancedCanvas, aistudio,
                     keyCheck, connecting, now, reads, edits, issued >>

\* the catch blocks of FilterStudio: console.error only
FilterCatchGate(err) == hasApiKey

\* the part of handleEnhance and of analyzeRefStyle after the await
CompleteFilterText(r, o) ==
  /\ r \in inflight
  /\ r.op \in {"handleEnhance", "analyzeRefStyle"}
  /\ o \in Outcomes(TextResponses)
  /\ hasApiKey' = IF o.threw THEN FilterCatchGate(o.err) ELSE hasApiKey
  /\ UNCHANGED << isInitialLoad, originalImage, generatedImage, prompt, loading,
                  enhancing, error, isCompareMode, sceneRefImage, analyzingSceneRef,
                  selectedModel, blending, learningProfile, activeView, history,
                  feedback, showFeedbackOptions >>
  /\ UNCHANGED << aistudio, keyCheck, connecting, now, reads, edits, issued >>
  /\ Render(inflight \ {r}, readers, nextId,
            IF ~r.live THEN filterStudio
            ELSE [filterStudio EXCEPT
                    !.filterPrompt = IF o.threw THEN @ ELSE TextAfter(o.response, @),
                    !.enhancing = IF r.op = "handleEnhance" THEN FALSE ELSE @,
                    !.analyzingRef = IF r.op = "analyzeRefStyle" THEN FALSE ELSE @],
            promptInspector, brushEditor, advancedCanvas)

\* --------------------------------------------------------- PromptInspector

\* the Re-analyze button: disabled={loading}
analyzeImage ==
  /\ View = "inspector"
  /\ ~promptInspector.loading
  /\ ~Falsy(ImageProp(originalImage, history))
  /\ nextId <= MaxReq
  /\ promptInspector' = [jsonResult |-> Null, loading |-> TRUE]
  /\ inflight' = inflight \cup {AnalyzeRequest(nextId, ImageProp(originalImage, history))}
  /\ nextId' = nextId + 1
  /\ UNCHANGED << appVars, filterStudio, brushEditor, advancedCanvas, aistudio,
                  keyCheck, connecting, readers, now, reads, edits, issued >>

\* variant: the response text is shown as it is
JsonOfRaw(response) == [text |-> response.text]

\* response.text || "{}"
JsonOf(response) ==
  [text |-> IF response.text # <<>> THEN response.text ELSE <<"{}">>]
\* JSON.stringify({ error: "Failed to analyze image." }, null, 2)
AnalyzeFailedJson == [text |-> <<"{", "error", ":", "Failed to analyze image.", "}">>]

\* onAuthError={() => setHasApiKey(false)}
onAuthError == FALSE

\* the catch block of analyzeImage
InspectorCatchGate(err) == IF isAuthError(err) THEN onAuthError ELSE hasApiKey

\* variant: an analysis that returns is sent again
CompleteAnalyzeImageRetry(r, o) ==
  /\ r \in inflight
  /\ r.op = "analyzeImage"
  /\ o \in Outcomes(TextResponses)
  /\ nextId <= MaxReq
  /\ inflight' = (inflight \ {r}) \cup {[r EXCEPT !.id = nextId]}
  /\ nextId' = nextId + 1
  /\ UNCHANGED << appVars, childVars, aistudio, keyCheck, connecting, readers, now,
                  reads, edits, issued >>

\* the part of analyzeImage after the await
CompleteAnalyzeImage(r, o) ==
  /\ r \in inflight
  /\ r.op = "analyzeImage"
  /\ o \in Outcomes(TextResponses)
  /\ hasApiKey' = IF o.threw THEN InspectorCatchGate(o.err) ELSE hasApiKey
  /\ UNCHANGED << isInitialLoad, originalImage, generatedImage, prompt, loading,
                  enhancing, error, isCompareMode, sceneRefImage, analyzingSceneRef,
                  selectedModel, blending, learningProfile, activeView, history,
                  feedback, showFeedbackOptions >>
  /\ UNCHANGED << aistudio, keyCheck, connecting, now, reads, edits, issued >>
  /\ Render(inflight \ {r}, readers, nextId, filterStudio,
            IF ~r.live THEN promptInspector
            ELSE [jsonResult |-> IF ~o.threw THEN JsonOf(o.response)
                                 ELSE IF isAuthError(o.err) THEN promptInspector.jsonResult
                                 ELSE AnalyzeFailedJson,
                  loading |-> FALSE],
            brushEditor, advancedCanvas)

\* ---------------------------------------------------------- AdvancedCanvas

\* nodes.find(n => n.id === id): the index of the first match, 0 when none
FindNode(nodes, id) ==
  IF \E i \in 1..Len(nodes) : nodes[i].id = id
  THEN CHOOSE i \in 1..Len(nodes) :
         nodes[i].id = id /\ \A j \in 1..(i - 1) : nodes[j].id # id
  ELSE 0

\* { ...n.data, ...newData }
Merge(data, newData) ==
  [f \in DOMAIN data |-> IF f \in DOMAIN newData THEN newData[f] ELSE data[f]]

\* nodes.map(n => n.id === id ? { ...n, data: { ...n.data, ...newData } } : n)
updateNodeData(nodes, id, newData) ==
  [i \in 1..Len(nodes) |->
     IF nodes[i].id = id THEN [nodes[i] EXCEPT !.data = Merge(@, newData)] ELSE nodes[i]]

\* the node image shown: node.data.image || node.data.result
NodeHasImage(n) == n.data.image # Null \/ n.data.result # Null

\* the + button of a node that shows an image; t is what Date.now() returns at
\* the click: the millisecond clock may have advanced since it was last read
addNode(parentId, t) ==
  LET nodes == advancedCanvas.nodes
      p == FindNode(nodes, parentId)
      newNode == [id |-> <<"node", t>>, type |-> "generator",
                  x |-> nodes[p].x + 450, y |-> nodes[p].y, parentId |-> parentId,
                  data |-> [image |-> Null, prompt |-> <<>>, status |-> "idle",
                            result |-> Null, model |-> "nano-banana-1"]]
  IN /\ View = "advanced"
     /\ p # 0
     /\ NodeHasImage(nodes[p])
     /\ t >= now
     /\ now' = t
     /\ advancedCanvas' = [advancedCanvas EXCEPT !.nodes = Append(nodes, newNode)]
     /\ UNCHANGED << appVars, filterStudio, promptInspector, brushEditor, aistudio,
                     keyCheck, connecting, inflight, readers, nextId, reads, edits,
                     issued >>

\* a node dragged by its header (onMouseDown sets draggingNode, handleMouseMove
\* moves it): nodes.map(n => n.id === draggingNode.id ? {...n, x: n.x + dx} : n)
MoveNode(nodes, id, dx) ==
  [i \in 1..Len(nodes) |->
     IF nodes[i].id = id THEN [nodes[i] EXCEPT !.x = @ + dx] ELSE nodes[i]]

handleMouseMove(id) ==
  LET nodes == advancedCanvas.nodes
  IN /\ View = "advanced"
     /\ FindNode(nodes, id) # 0
     /\ edits < MaxEdits
     /\ edits' = edits + 1
     /\ advancedCanvas' = [advancedCanvas EXCEPT !.nodes = MoveNode(nodes, id, 1)]
     /\ UNCHANGED << appVars, filterStudio, promptInspector, brushEditor, envVars,
                     nextId, reads, issued >>

\* the prompt input of a generator node
setNodePrompt(id, text) ==
  LET nodes == advancedCanvas.nodes
      i == FindNode(nodes, id)
  IN /\ View = "advanced"
     /\ i # 0
     /\ nodes[i].type = "generator"
     /\ text \in UserTexts
     /\ text # nodes[i].data.prompt
     /\ edits < MaxEdits
     /\ edits' = edits + 1
     /\ advancedCanvas' =
          [advancedCanvas EXCEPT !.nodes = updateNodeData(nodes, id, [prompt |-> text])]
     /\ UNCHANGED << appVars, filterStudio, promptInspector, brushEditor, envVars,
                     nextId, reads, issued >>

\* the Run Node button (disabled={status === 'loading' || !prompt}) and the
\* Enter key of the node's prompt input
RunEnabled(n, via) ==
  IF via = "button" THEN ~(n.data.status = "loading" \/ n.data.prompt = <<>>) ELSE TRUE

\* parent.data.result || parent.data.image
SourceImage(parent) ==
  IF parent.data.result # Null THEN parent.data.result ELSE parent.data.image

\* runGenerator up to its await; the closure keeps the nodes of this render
runGenerator(nodeId, via) ==
  LET nodes == advancedCanvas.nodes
      i == FindNode(nodes, nodeId)
      p == FindNode(nodes, nodes[i].parentId)
  IN /\ View = "advanced"
     /\ via \in {"button", "enter"}
     /\ i # 0
     /\ nodes[i].type = "generator"
     /\ RunEnabled(nodes[i], via)
     /\ nodes[i].parentId # <<>>
     /\ p # 0
     /\ SourceImage(nodes[p]) # Null
     /\ nextId <= MaxReq
     /\ advancedCanvas' =
          [advancedCanvas EXCEPT
             !.nodes = updateNodeData(nodes, nodeId, [status |-> "loading"])]
     /\ inflight' = inflight \cup
          {[id |-> nextId, op |-> "runGenerator", owner |-> "advanced", live |-> TRUE,
            nodeId |-> nodeId, nodes |-> nodes,
            sent |-> [model |-> ApiModel(nodes[i].data.model),
                      text |-> nodes[i].data.prompt,
                      image |-> InlineData(SourceImage(nodes[p]))]]}
     /\ nextId' = nextId + 1
     /\ UNCHANGED << appVars, filterStudio, promptInspector, brushEditor, aistudio,
                     keyCheck, connecting, readers, now, reads, edits, issued >>

\* the catch block of runGenerator
CanvasCatchGate(err) == IF isAuthError(err) THEN onAuthError ELSE hasApiKey

\* what runGenerator writes to its node after the await
GeneratorResult(o) ==
  IF ~o.threw /\ HasImage(o.response)
  THEN [status |-> "complete", result |-> PngDataUrl(GeneratedBase64(o.response))]
  ELSE [status |-> "idle"]

\* the part of runGenerator after the await: updateNodeData on the captured nodes
CompleteRunGenerator(r, o) ==
  /\ r \in inflight
  /\ r.op = "runGenerator"
  /\ o \in Outcomes(ImageResponses(r.id))
  /\ hasApiKey' = IF o.threw THEN CanvasCatchGate(o.err) ELSE hasApiKey
  /\ UNCHANGED << isInitialLoad, originalImage, generatedImage, prompt, loading,
                  enhancing, error, isCompareMode, sceneRefImage, analyzingSceneRef,
                  selectedModel, blending, learningProfile, activeView, history,
                  feedback, showFeedbackOptions >>
  /\ UNCHANGED << aistudio, keyCheck, connecting, now, reads, edits, issued >>
  /\ Render(inflight \ {r}, readers, nextId, filterStudio, promptInspector, brushEditor,
            IF ~r.live THEN advancedCanvas
            ELSE [nodes |-> updateNodeData(r.nodes, r.nodeId, GeneratorResult(o))])

\* ------------------------------------------ App: feedback, blending, compare

\* dislikes in one behaviour
MaxDislikes == 3

\* the editor shows a result: the feedback bar and the compare button exist
ResultShown ==
  View = "editor" /\ originalImage # Null /\ generatedImage # Null

\* the frame of the handlers of the editor's result bar and of the slider
EditorFrame ==
  /\ UNCHANGED << hasApiKey, isInitialLoad, originalImage, generatedImage, prompt,
                  loading, enhancing, error, sceneRefImage, analyzingSceneRef,
                  selectedModel, activeView, history >>
  /\ UNCHANGED << childVars, envVars, nextId, reads, edits, issued >>

\* the thumbs-up button, shown while !feedback && !showFeedbackOptions
handleLike ==
  /\ ResultShown
  /\ feedback = "null" /\ ~showFeedbackOptions
  /\ feedback' = "liked"
  /\ UNCHANGED << showFeedbackOptions, learningProfile, blending, isCompareMode >>
  /\ EditorFrame

\* the thumbs-down button: setShowFeedbackOptions(true)
openFeedbackOptions ==
  /\ ResultShown
  /\ feedback = "null" /\ ~showFeedbackOptions
  /\ showFeedbackOptions' = TRUE
  /\ UNCHANGED << feedback, learningProfile, blending, isCompareMode >>
  /\ EditorFrame

Reasons == {"lighting", "cutout", "fake"}

\* newCorrection of handleDislike
Correction(reason) ==
  CASE reason = "lighting" ->
         "User complained about bad lighting integration previously. FORCE Color Grading and Light Matching."
    [] reason = "cutout" ->
         "User complained about artificial edges. IMPROVE Edge Blending and Alpha Matting."
    [] reason = "fake" ->
         "User complained result looked fake. INCREASE Photorealism and Texture details."
    [] OTHER -> ""

\* corrections.includes(c)
IncludesCorrection(corrections, c) ==
  \E i \in 1..Len(corrections) : corrections[i] = c

\* variant: the correction is pushed without looking for it in the list
PushCorrectionAlways(corrections, c) ==
  IF c # "" THEN Append(corrections, c) ELSE corrections

\* if (newCorrection && !corrections.includes(newCorrection)) corrections.push(...)
PushCorrection(corrections, c) ==
  IF c # "" /\ ~IncludesCorrection(corrections, c)
  THEN Append(corrections, c)
  ELSE corrections

\* newProfile of handleDislike
NewProfile(profile, reason) ==
  [lightingEmphasis |->
     profile.lightingEmphasis + (IF reason = "lighting" THEN 1 ELSE 0),
   blendingStrictness |->
     profile.blendingStrictness + (IF reason = "cutout" THEN 1 ELSE 0),
   corrections |-> PushCorrection(profile.corrections, Correction(reason))]

\* the dislikes given so far
Dislikes ==
  learningProfile.lightingEmphasis + learningProfile.blendingStrictness
    + (IF IncludesCorrection(learningProfile.corrections, Correction("fake"))
       THEN 1 ELSE 0)

\* a button of the "Improve next time?" panel, shown while showFeedbackOptions
\* holds and feedback is not 'liked'
handleDislike(reason) ==
  /\ ResultShown
  /\ showFeedbackOptions /\ feedback # "liked"
  /\ reason \in Reasons
  /\ Dislikes < MaxDislikes
  /\ feedback' = "disliked"
  /\ showFeedbackOptions' = FALSE
  /\ learningProfile' = NewProfile(learningProfile, reason)
  /\ UNCHANGED << blending, isCompareMode >>
  /\ EditorFrame

\* the blending slider: onChange={(e) => setBlending(parseInt(e.target.value))}
setBlending(level) ==
  /\ View = "editor"
  /\ originalImage # Null
  /\ level \in SliderLevels
  /\ level # blending
  /\ blending' = level
  /\ UNCHANGED << feedback, showFeedbackOptions, learningProfile, isCompareMode >>
  /\ EditorFrame

\* the compare button: setIsCompareMode(!isCompareMode)
toggleCompare ==
  /\ ResultShown
  /\ isCompareMode' = ~isCompareMode
  /\ UNCHANGED << feedback, showFeedbackOptions, learningProfile, blending >>
  /\ EditorFrame

\* ------------------------------------------------------------ specification

NodeIds == {<<"root">>} \cup { <<"node", t>> : t \in 0..MaxTime }

Next ==
  \/ \E has \in BOOLEAN : KeyCheckResolve(has)
  \/ KeyCheckReject
  \/ handleConnect
  \/ handleConnectNoStudio
  \/ ConnectResolve
  \/ ConnectReject
  \/ \E view \in {"brush", "filters", "inspector", "advanced", "gallery"} : Navigate(view)
  \/ Back
  \/ handleReset
  \/ \E i \in 1..Len(history) : loadFromHistory(i)
  \/ \E file \in Files(reads + 1) : handleFile(file)
  \/ \E rd \in readers : handleFileLoaded(rd)
  \/ generateNewBackground
  \/ \E via \in {"button", "enter"} : generateWithMask(via)
  \/ applyFilter
  \/ \E r \in inflight : \E o \in Outcomes(ImageResponses(r.id)) : CompleteGeneration(r, o)
  \/ \E text \in UserTexts : setPrompt(text)
  \/ enhancePrompt
  \/ \E file \in Files(reads + 1) : handleSceneRefUpload(file)
  \/ \E rd \in readers : analyzeSceneRef(rd)
  \/ \E r \in inflight : \E o \in Outcomes(TextResponses) : CompleteAppText(r, o)
  \/ \E text \in UserTexts : BrushSetPrompt(text)
  \/ \E text \in UserTexts : setFilterPrompt(text)
  \/ handleEnhance
  \/ \E file \in Files(reads + 1) : handleRefUpload(file)
  \/ \E rd \in readers : analyzeRefStyle(rd)
  \/ \E r \in inflight : \E o \in Outcomes(TextResponses) : CompleteFilterText(r, o)
  \/ analyzeImage
  \/ \E r \in inflight : \E o \in Outcomes(TextResponses) : CompleteAnalyzeImage(r, o)
  \/ \E id \in NodeIds : Len(advancedCanvas.nodes) < MaxNodes /\ addNode(id, now)
  \/ \E id \in NodeIds : \E text \in UserTexts : setNodePrompt(id, text)
  \/ \E id \in NodeIds : \E via \in {"button", "enter"} : runGenerator(id, via)
  \/ \E r \in inflight : \E o \in Outcomes(ImageResponses(r.id)) : CompleteRunGenerator(r, o)

Spec == Init /\ [][Next]_vars

\* A session that only uses the node graph: the key check, an upload, the
\* advanced view and its handlers, with a larger graph and a running clock.
CanvasNext ==
  \/ \E has \in BOOLEAN : KeyCheckResolve(has)
  \/ handleConnect
  \/ ConnectResolve
  \/ \E file \in Files(reads + 1) : handleFile(file)
  \/ \E rd \in readers : handleFileLoaded(rd)
  \/ Navigate("advanced")
  \/ Back
  \/ \E id \in NodeIds : \E t \in 0..MaxTime :
       Len(advancedCanvas.nodes) < MaxCanvasNodes /\ addNode(id, t)
  \/ \E id \in NodeIds : \E text \in UserTexts : setNodePrompt(id, text)
  \/ \E id \in NodeIds : handleMouseMove(id)
  \/ \E id \in NodeIds : \E via \in {"button", "enter"} : runGenerator(id, via)
  \/ \E r \in inflight : \E o \in Outcomes(ImageResponses(r.id)) : CompleteRunGenerator(r, o)

CanvasSpec == Init /\ [][CanvasNext]_vars

\* A session that paints a mask in the brush view.
BrushNext ==
  \/ \E has \in BOOLEAN : KeyCheckResolve(has)
  \/ \E file \in Files(reads + 1) : handleFile(file)
  \/ \E rd \in readers : handleFileLoaded(rd)
  \/ Navigate("brush")
  \/ Back
  \/ startDrawing
  \/ draw
  \/ stopDrawing
  \/ \E eager \in BOOLEAN : clearCanvas(eager)
  \/ handleUndo

BrushSpec == Init /\ [][BrushNext]_vars

\* A session in the editor that rates results: uploads, background
\* generation, the feedback bar, the gallery, reset, compare and the blending
\* slider dragged to its left end.
FeedbackNext ==
  \/ \E has \in BOOLEAN : KeyCheckResolve(has)
  \/ \E file \in Files(reads + 1) : handleFile(file)
  \/ \E rd \in readers : handleFileLoaded(rd)
  \/ \E text \in UserTexts : setPrompt(text)
  \/ generateNewBackground
  \/ \E r \in inflight : \E o \in Outcomes(ImageResponses(r.id)) : CompleteGeneration(r, o)
  \/ handleLike
  \/ openFeedbackOptions
  \/ \E reason \in Reasons : handleDislike(reason)
  \/ toggleCompare
  \/ setBlending(0)
  \/ handleReset
  \/ Navigate("gallery")
  \/ \E i \in 1..Len(history) : loadFromHistory(i)

FeedbackSpec == Init /\ [][FeedbackNext]_vars

\* A session in the editor that moves the blending slider over its range and
\* sends background requests.
BlendNext ==
  \/ \E has \in BOOLEAN : KeyCheckResolve(has)
  \/ \E file \in Files(reads + 1) : handleFile(file)
  \/ \E rd \in readers : handleFileLoaded(rd)
  \/ \E text \in UserTexts : setPrompt(text)
  \/ \E level \in SliderLevels : setBlending(level)
  \/ generateNewBackground

BlendSpec == Init /\ [][BlendNext]_vars

\* ------------------------------------------------------------------ claims

\* the gate is closed: the key check is over and there is no key
GateClosed == ~isInitialLoad /\ ~hasApiKey

RequestIds == { r.id : r \in inflight }

\* the requests that end in a step
Ended == { r \in inflight : r.id \notin RequestIds' }

ThrownOutcomes == { [threw |-> TRUE, err |-> e] : e \in Errors }

\* a step in which request r ends with outcome o
Completes(r, o) ==
  \/ CompleteGeneration(r, o)
  \/ CompleteAppText(r, o)
  \/ CompleteFilterText(r, o)
  \/ CompleteAnalyzeImage(r, o)
  \/ CompleteRunGenerator(r, o)

\* C1: whenever a call to the external model fails with an auth error, in any
\* mode, hasApiKey is false once the call has been handled.
C1_AuthErrorClosesGate ==
  [][\A r \in Ended : \A o \in ThrownOutcomes :
       (isAuthError(o.err) /\ Completes(r, o)) => ~hasApiKey']_vars

\* every handler the user can trigger, except handleConnect
UserAction ==
  \/ \E view \in {"brush", "filters", "inspector", "advanced", "gallery"} : Navigate(view)
  \/ Back
  \/ handleReset
  \/ \E i \in 1..Len(history) : loadFromHistory(i)
  \/ \E file \in Files(reads + 1) : handleFile(file)
  \/ generateNewBackground
  \/ \E via \in {"button", "enter"} : generateWithMask(via)
  \/ applyFilter
  \/ \E text \in UserTexts : setPrompt(text)
  \/ enhancePrompt
  \/ \E file \in Files(reads + 1) : handleSceneRefUpload(file)
  \/ \E text \in UserTexts : BrushSetPrompt(text)
  \/ \E text \in UserTexts : setFilterPrompt(text)
  \/ handleEnhance
  \/ \E file \in Files(reads + 1) : handleRefUpload(file)
  \/ analyzeImage
  \/ \E id \in NodeIds : \E t \in 0..MaxTime : addNode(id, t)
  \/ \E id \in NodeIds : handleMouseMove(id)
  \/ \E id \in NodeIds : \E text \in UserTexts : setNodePrompt(id, text)
  \/ \E id \in NodeIds : \E via \in {"button", "enter"} : runGenerator(id, via)

\* C2 (as stated): while the gate is closed no new request to the external
\* model is started.
C2_NoRequestWhileGateClosed ==
  [][(GateClosed /\ GateClosed') => RequestIds' \subseteq RequestIds]_vars

\* C2 (amended): while the gate is closed the connect screen is rendered
\* instead of any editing view and no user handler other than handleConnect is
\* enabled; a request started while the gate stays closed is started by the
\* onload of a reference-image file read (analyzeSceneRef, analyzeRefStyle).
C2_GateBlocksUser ==
  [][GateClosed =>
       /\ View = "connect"
       /\ ~ENABLED UserAction
       /\ (GateClosed' /\ ~(RequestIds' \subseteq RequestIds)) =>
            \E rd \in readers : analyzeSceneRef(rd) \/ analyzeRefStyle(rd)]_vars

\* C2 witness: the gate is closed over an editing session with a request in
\* flight that a reference-image read started
C2_Witness ==
  /\ GateClosed
  /\ originalImage # Null
  /\ \E r \in inflight : r.op \in {"analyzeSceneRef", "analyzeRefStyle"}

\* the data URL the app builds from the image a generation request returns
ResultOf(id) == PngDataUrl([src |-> "model", n |-> id])

\* the positions of the history items whose generated image is img
Recorded(img) == { k \in 1..Len(history) : history[k].generated = img }

\* the generation requests of `issued` that have returned an image
Succeeded == { q \in issued : q.id \notin RequestIds }

\* C3 (as stated): every result image of every image-producing mode, the node
\* graph's generator included, is recorded as one history item.
C3_EveryResultRecorded ==
  /\ \A q \in Succeeded : Cardinality(Recorded(ResultOf(q.id))) = 1
  /\ \A i \in 1..Len(advancedCanvas.nodes) :
       advancedCanvas.nodes[i].data.result # Null =>
         Cardinality(Recorded(advancedCanvas.nodes[i].data.result)) = 1

\* C3 (amended): every result image of generateNewBackground, generateWithMask
\* and applyFilter is recorded as exactly one history item, and history holds
\* nothing else; a result of the node graph's runGenerator is kept in its node
\* only.
C3_AppResultsRecorded ==
  /\ \A q \in Succeeded : Cardinality(Recorded(ResultOf(q.id))) = 1
  /\ Len(history) = Cardinality(Succeeded)
  /\ \A i \in 1..Len(advancedCanvas.nodes) :
       Recorded(advancedCanvas.nodes[i].data.result) = {}

\* C3 witness: two results recorded, the later one on display
C3_Witness == Len(history) = 2 /\ generatedImage = history[1].generated

\* the outcome o is a failure: an exception, or a response without image data
Failed(o) == o.threw \/ ~HasImage(o.response)

\* a step in which one of the three generators returns an image
GenerationSucceeds ==
  \E r \in Ended : \E o \in Outcomes(ImageResponses(r.id)) :
    ~Failed(o) /\ CompleteGeneration(r, o)

\* C4: history is append-only and newest-first: a successful generation inserts
\* exactly one item at index 0 and every other step leaves history unchanged.
C4_HistoryAppendOnly ==
  [][IF GenerationSucceeds
     THEN Len(history') = Len(history) + 1 /\ Tail(history') = history
     ELSE history' = history]_vars

\* C4 witness: two items recorded and kept across handleReset
C4_Witness == Len(history) = 2 /\ originalImage = Null /\ generatedImage = Null

\* C5 (as stated): every history item holds the original image, the prompt and
\* the model id that were current when its request was issued.
C5_ItemHoldsIssuedPrompt ==
  \A k \in 1..Len(history) : \E q \in issued :
    /\ history[k].generated = ResultOf(q.id)
    /\ history[k].original = q.originalImage
    /\ history[k].model = q.selectedModel
    /\ history[k].prompt = q.prompt

\* C5 (amended): every history item holds the original image and the model id
\* that were current when its request was issued, and the prompt that was
\* current then, which applyFilter stores behind the text "Filter: ".
C5_ItemHoldsIssuedValues ==
  \A k \in 1..Len(history) : \E q \in issued :
    /\ history[k].generated = ResultOf(q.id)
    /\ history[k].original = q.originalImage
    /\ history[k].model = q.selectedModel
    /\ history[k].prompt =
         IF q.op = "applyFilter" THEN <<"Filter:", " ">> \o q.prompt ELSE q.prompt

\* C5 witness: an item recorded after the session it was issued in was reset
C5_Witness ==
  /\ Len(history) >= 1
  /\ generatedImage = history[1].generated
  /\ history[1].original # originalImage

\* C6 (as stated): whenever generateNewBackground, generateWithMask, applyFilter
\* or runGenerator fails or returns no image, a non-empty error message is
\* shown and generatedImage and history are unchanged.
C6_FailureShowsMessage ==
  [][\A r \in Ended : \A o \in Outcomes(ImageResponses(r.id)) :
       (Failed(o) /\ (CompleteGeneration(r, o) \/ CompleteRunGenerator(r, o))) =>
         /\ error' # ""
         /\ generatedImage' = generatedImage
         /\ history' = history]_vars

\* C6 (amended): whenever generateNewBackground, generateWithMask or
\* applyFilter fails with an error that is no auth error, or returns no image,
\* error becomes that generator's non-empty message; on an auth error error
\* keeps its value and the gate closes; a failed runGenerator leaves error as
\* it is; in each case generatedImage and history are unchanged.
C6_NonAuthFailureShowsMessage ==
  [][\A r \in Ended : \A o \in Outcomes(ImageResponses(r.id)) :
       /\ (Failed(o) /\ CompleteGeneration(r, o)) =>
            /\ generatedImage' = generatedImage
            /\ history' = history
            /\ IF isAuthError(Caught(o))
               THEN error' = error /\ ~hasApiKey'
               ELSE error' # "" /\ error' = GenerationFailedMessage(r.op)
       /\ (Failed(o) /\ CompleteRunGenerator(r, o)) =>
            /\ error' = error
            /\ generatedImage' = generatedImage
            /\ history' = history]_vars

\* C6 witness: a generation failed after an earlier result, which is still shown
C6_Witness ==
  /\ error = "Error generating image. Please try again."
  /\ generatedImage # Null
  /\ Len(history) = 1

\* C7: loading is true exactly while a request of one of the three generators
\* is in flight.
C7_LoadingIffInFlight ==
  loading <=> \E r \in inflight : r.op \in GenerationOps

C9_GeneratedHasOriginal == generatedImage # Null => originalImage # Null

\* C10: a generated image is derived from the current original image: it was
\* generated from it, or loaded with it from one history item.
C10_GeneratedFromOriginal ==
  generatedImage # Null =>
    \E q \in issued :
      generatedImage = ResultOf(q.id) /\ q.originalImage = originalImage

\* C11: when the read of an image file picked through handleFile loads,
\* originalImage becomes that image, generatedImage and feedback become null,
\* the feedback options close, error is cleared and activeView becomes
\* 'editor'; when the picked file is no image, error becomes "Unsupported file
\* format." and originalImage, generatedImage, history and activeView are
\* unchanged.
C11_handleFileEffects ==
  [][/\ \A rd \in readers :
          (rd \notin readers' /\ rd.kind = "handleFile" /\ handleFileLoaded(rd)) =>
            /\ rd.file.type[1] = "image"
            /\ originalImage' = [mime |-> rd.file.type, data |-> rd.file.content]
            /\ generatedImage' = Null
            /\ feedback' = "null"
            /\ ~showFeedbackOptions'
            /\ error' = ""
            /\ activeView' = "editor"
     /\ \A file \in Files(reads + 1) :
          (file.type[1] # "image" /\ handleFile(file)) =>
            /\ error' = "Unsupported file format."
            /\ UNCHANGED << originalImage, generatedImage, history, activeView >>]_vars

\* C11 witness: a second photo was uploaded after a result of the first
C11_Witness ==
  /\ originalImage = ReadAsDataURL([type |-> JPEG, content |-> [src |-> "file", n |-> 2]])
  /\ generatedImage = Null
  /\ Len(history) >= 1
  /\ activeView = "editor"

\* the generation requests a step starts
StartedGenerations ==
  { r \in inflight' : r.id \notin RequestIds /\ r.op \in GenerationOps }

\* a step in which generation request r ends with a result
SucceedsWith(r) == r.op \in GenerationOps /\ Len(history') > Len(history)

\* originalImage is written by no generator
OriginalImageWriters ==
  originalImage' # originalImage =>
    \/ \E rd \in readers : rd.kind = "handleFile" /\ handleFileLoaded(rd)
    \/ handleReset
    \/ \E i \in 1..Len(history) : loadFromHistory(i)

\* what a generator sends is the current original image, not the result
SendsOriginal ==
  \A r \in StartedGenerations :
    /\ originalImage # Null
    /\ r.sent.image = [mimeType |-> originalImage.mime, data |-> originalImage.data]
    /\ generatedImage # Null =>
         r.sent.image # [mimeType |-> generatedImage.mime, data |-> generatedImage.data]

\* C12 (as stated): each generator sends the current originalImage, never the
\* previous generatedImage; on success it writes only generatedImage and
\* history (and clears loading); originalImage changes only through handleFile,
\* handleReset and loadFromHistory.
C12_SuccessWritesOnlyResult ==
  [][/\ SendsOriginal
     /\ \A r \in Ended : SucceedsWith(r) =>
          UNCHANGED << hasApiKey, isInitialLoad, originalImage, prompt, enhancing,
                       error, isCompareMode, sceneRefImage, analyzingSceneRef,
                       selectedModel, activeView, feedback, showFeedbackOptions >>
     /\ OriginalImageWriters]_vars

\* C12 (amended): each generator sends the current originalImage, never the
\* previous generatedImage; on success it writes generatedImage and history,
\* clears loading, and generateWithMask and applyFilter also set activeView
\* to 'editor', nothing else of the App state; originalImage changes only
\* through handleFile, handleReset and loadFromHistory.
C12_OneImagePipeline ==
  [][/\ SendsOriginal
     /\ \A r \in Ended : SucceedsWith(r) =>
          /\ UNCHANGED << hasApiKey, isInitialLoad, originalImage, prompt, enhancing,
                          error, isCompareMode, sceneRefImage, analyzingSceneRef,
                          selectedModel, feedback, showFeedbackOptions >>
          /\ ~loading'
          /\ generatedImage' = ResultOf(r.id)
          /\ activeView' = IF r.op = "generateNewBackground" THEN activeView ELSE "editor"
     /\ OriginalImageWriters]_vars

\* C12 witness: a masked edit of the uploaded photo succeeded and went back to
\* the editor, with a second generation of the same photo in flight
C12_Witness ==
  /\ Len(history) = 1
  /\ generatedImage = history[1].generated
  /\ originalImage = history[1].original
  /\ activeView = "editor"
  /\ \E q \in issued : q.op = "generateWithMask" /\ q.id \notin RequestIds
  /\ \E r \in inflight : r.op = "generateNewBackground"

\* C13 (as stated): after any successful generation generatedImage equals the
\* decoded result and activeView is 'editor', whatever view was active when
\* the request completed.
C13_ResultShownInEditor ==
  [][\A r \in Ended : SucceedsWith(r) =>
       generatedImage' = ResultOf(r.id) /\ activeView' = "editor"]_vars

\* C13 (amended): after any successful generation generatedImage equals the
\* decoded result; after generateWithMask and applyFilter activeView is
\* 'editor' whatever view was active, after generateNewBackground activeView
\* is the view that was active when the request completed.
C13_ResultShown ==
  [][\A r \in Ended : SucceedsWith(r) =>
       /\ generatedImage' = ResultOf(r.id)
       /\ r.op \in {"generateWithMask", "applyFilter"} => activeView' = "editor"
       /\ r.op = "generateNewBackground" => activeView' = activeView]_vars

\* C13 witness: the result of a masked edit is on display in the editor while
\* the brush view's own state is gone
C13_Witness ==
  /\ activeView = "editor"
  /\ Len(history) = 1
  /\ generatedImage = history[1].generated
  /\ \E q \in issued : q.op = "generateWithMask" /\ q.id \notin RequestIds
  /\ inflight = {}

\* the requests a step starts
Started == RequestIds' \ RequestIds

\* a step of a handler that calls the external model
StartsRequest ==
  \/ generateNewBackground
  \/ \E via \in {"button", "enter"} : generateWithMask(via)
  \/ applyFilter
  \/ enhancePrompt
  \/ handleEnhance
  \/ analyzeImage
  \/ \E rd \in readers : analyzeSceneRef(rd) \/ analyzeRefStyle(rd)
  \/ \E id \in NodeIds : \E via \in {"button", "enter"} : runGenerator(id, via)

\* C14: each operation that calls the external model issues exactly one
\* request, and the step in which a request returns, with a result or a
\* failure, issues none: nothing is retried.
C14_NoRetry ==
  [][/\ Cardinality(Started) <= 1
     /\ StartsRequest => Cardinality(Started) = 1
     /\ Ended # {} => Started = {}]_vars

\* C14 witness: the one request of a behaviour failed and nothing is in flight
C14_Witness ==
  /\ error = "Error generating image. Please try again."
  /\ inflight = {}
  /\ nextId = 2

\* C15: closing and reopening the key gate preserves the session: the step
\* that sets hasApiKey false, the click on Connect and the step that sets
\* hasApiKey true again each leave originalImage, generatedImage, prompt,
\* history, selectedModel and activeView as they are.
C15_GateReopenPreservesSession ==
  [][(hasApiKey' # hasApiKey \/ connecting' # connecting) =>
       UNCHANGED << originalImage, generatedImage, prompt, history, selectedModel,
                    activeView >>]_vars

\* C15 witness: an auth error closed the gate over a session in the brush view
\* and the user has pressed Connect
C15_Witness ==
  /\ GateClosed
  /\ connecting = 1
  /\ originalImage # Null
  /\ generatedImage # Null
  /\ activeView = "brush"

\* C16: a change made to the node list while a generator request is in flight
\* (a node added, a prompt edited, a node dragged, another generator's result)
\* is still there after the request completes and writes its status and
\* result: the completion changes only the status and result of its own node.
C16_NoLostUpdate ==
  [][\A r \in Ended :
       (r.op = "runGenerator" /\ r.live /\ View' = "advanced") =>
         /\ Len(advancedCanvas'.nodes) = Len(advancedCanvas.nodes)
         /\ \A i \in 1..Len(advancedCanvas.nodes) :
              LET n == advancedCanvas.nodes[i]
                  m == advancedCanvas'.nodes[i]
              IN IF n.id = r.nodeId
                 THEN /\ m.id = n.id
                      /\ m.x = n.x
                      /\ m.data.prompt = n.data.prompt
                      /\ m.data.model = n.data.model
                 ELSE m = n]_vars

\* The runGenerator requests of the mounted canvas that have not returned.
GeneratorsInFlight ==
  {r \in inflight : r.op = "runGenerator" /\ r.live}

\* C17: a node has status 'loading' only while a runGenerator request for
\* that node is in flight; when no generator request is in flight no node is
\* 'loading', also after generators on different nodes ran concurrently.
C17_LoadingOnlyInFlight ==
  \A i \in 1..Len(advancedCanvas.nodes) :
    advancedCanvas.nodes[i].data.status = "loading" =>
      \E r \in GeneratorsInFlight : r.nodeId = advancedCanvas.nodes[i].id

\* The root node of the mounted canvas.
Root ==
  advancedCanvas.nodes[1]

\* C18: on entering the advanced view the canvas holds exactly one node, the
\* 'source' node with id 'root' and status 'idle', whose image is the current
\* original image or, when there is none, the original of the newest history
\* item, or null when the history is empty; while the canvas stays mounted
\* the image of the root node never changes.
C18_RootNode ==
  [][/\ (View # "advanced" /\ View' = "advanced") =>
          /\ Len(advancedCanvas'.nodes) = 1
          /\ Root'.type = "source"
          /\ Root'.id = <<"root">>
          /\ Root'.data.status = "idle"
          /\ Root'.data.image =
               IF originalImage' # Null THEN originalImage'
               ELSE IF Len(history') > 0 THEN history'[1].original
               ELSE Null
     /\ (View = "advanced" /\ View' = "advanced") =>
          /\ Len(advancedCanvas'.nodes) >= 1
          /\ Root'.id = <<"root">>
          /\ Root'.data.image = Root.data.image]_vars

\* C18 witness: the canvas is open with added nodes, and its root shows the
\* original of the newest history item because no image is loaded.
C18_Witness ==
  /\ View = "advanced"
  /\ originalImage = Null
  /\ Len(history) > 0
  /\ Len(advancedCanvas.nodes) > 1
  /\ Root.data.image = history[1].original

\* The input image runGenerator is to send for a node: the result of the
\* node's parent when it has one, the parent's image otherwise.
ChainedInput(nodes, nodeId) ==
  LET i == FindNode(nodes, nodeId)
      p == FindNode(nodes, nodes[i].parentId)
  IN IF nodes[p].data.result # Null THEN nodes[p].data.result
     ELSE nodes[p].data.image

\* runGenerator may act on a node: the node exists and has a parentId, the
\* parent exists and has a result or an image.
Runnable(nodes, nodeId) ==
  LET i == FindNode(nodes, nodeId)
      p == FindNode(nodes, nodes[i].parentId)
  IN /\ i # 0
     /\ nodes[i].parentId # <<>>
     /\ p # 0
     /\ (nodes[p].data.result # Null \/ nodes[p].data.image # Null)

\* C19: runGenerator issues a request only for a node that exists, has a
\* parentId and whose parent exists and has a result or an image; the request
\* carries the parent's result when present and the parent's image otherwise;
\* when the request succeeds the node gets status 'complete' and the decoded
\* result while its image and every other node are unchanged.
C19_ChainsImages ==
  [][/\ \A id \in Started :
          \A r \in inflight' :
            (r.id = id /\ r.op = "runGenerator") =>
              /\ Runnable(advancedCanvas.nodes, r.nodeId)
              /\ r.sent.image = InlineData(ChainedInput(advancedCanvas.nodes, r.nodeId))
     /\ \A r \in Ended :
          (r.op = "runGenerator" /\ r.live /\ View' = "advanced") =>
            \A o \in Outcomes(ImageResponses(r.id)) :
              (~o.threw /\ HasImage(o.response) /\ CompleteRunGenerator(r, o)) =>
                LET i == FindNode(advancedCanvas.nodes, r.nodeId)
                IN /\ i # 0
                   /\ Len(advancedCanvas'.nodes) = Len(advancedCanvas.nodes)
                   /\ advancedCanvas'.nodes[i].data.status = "complete"
                   /\ advancedCanvas'.nodes[i].data.result =
                        PngDataUrl(GeneratedBase64(o.response))
                   /\ advancedCanvas'.nodes[i].data.image =
                        advancedCanvas.nodes[i].data.image
                   /\ \A j \in 1..Len(advancedCanvas.nodes) :
                        j # i => advancedCanvas'.nodes[j] = advancedCanvas.nodes[j]]_vars

\* Following parentId links from the node at index i, for at most fuel
\* links, arrives at the root node.
RECURSIVE ReachesRoot(_, _, _)
ReachesRoot(nodes, i, fuel) ==
  IF i = 0 THEN FALSE
  ELSE IF nodes[i].id = <<"root">> THEN TRUE
  ELSE IF fuel = 0 THEN FALSE
  ELSE ReachesRoot(nodes, FindNode(nodes, nodes[i].parentId), fuel - 1)

\* One 'source' node, the root, and generators hanging from nodes of the list.
TreeShaped(nodes) ==
  /\ Cardinality({i \in 1..Len(nodes) : nodes[i].type = "source"}) = 1
  /\ \A i \in 1..Len(nodes) :
       IF nodes[i].type = "source"
       THEN nodes[i].id = <<"root">> /\ nodes[i].parentId = <<>>
       ELSE /\ nodes[i].type = "generator"
            /\ FindNode(nodes, nodes[i].parentId) # 0
  /\ \A i \in 1..Len(nodes) : ReachesRoot(nodes, i, Len(nodes))

\* No two nodes of the list have the same id.
DistinctIds(nodes) ==
  \A i, j \in 1..Len(nodes) : nodes[i].id = nodes[j].id => i = j

\* C20: whenever the canvas is open its node list has exactly one 'source'
\* node, with id 'root' and no parentId, every other node is a 'generator'
\* whose parentId is the id of a node of the list, node ids are pairwise
\* distinct, and the parentId links lead from every node to 'root'.
C20_GraphStructure ==
  View = "advanced" =>
    /\ TreeShaped(advancedCanvas.nodes)
    /\ DistinctIds(advancedCanvas.nodes)

\* The requests of the three generators that have not returned.
GenerationsInFlight ==
  {r \in inflight : r.op \in GenerationOps}

\* C21: at most one request of generateNewBackground, generateWithMask and
\* applyFilter is in flight at any time, because no view lets the user start
\* a generation while loading is true.
C21_OneGenerationInFlight ==
  Cardinality(GenerationsInFlight) <= 1

\* C22: loadFromHistory(item) sets originalImage, generatedImage and prompt to
\* the item's original, generated and prompt and activeView to 'editor', and
\* changes nothing else of the App state; the prompt loaded for a filter
\* result is the stored text "Filter: <style>", not the style text entered.
C22_loadFromHistoryEffects ==
  [][\A i \in 1..Len(history) :
       loadFromHistory(i) =>
         /\ originalImage' = history[i].original
         /\ generatedImage' = history[i].generated
         /\ prompt' = history[i].prompt
         /\ activeView' = "editor"
         /\ UNCHANGED << history, feedback, showFeedbackOptions, isCompareMode,
                         selectedModel, sceneRefImage, error, loading, hasApiKey,
                         isInitialLoad, enhancing, analyzingSceneRef, blending,
                         learningProfile >>
         /\ \A q \in issued :
              (q.op = "applyFilter" /\ history[i].generated = ResultOf(q.id)) =>
                prompt' = <<"Filter:", " ">> \o q.prompt]_vars

\* C22 witness: a filter result has been loaded from the gallery.
C22_Witness ==
  /\ View = "editor"
  /\ prompt = <<"Filter:", " ", "sky">>
  /\ generatedImage # Null
  /\ \E i \in 1..Len(history) :
       /\ history[i].generated = generatedImage
       /\ history[i].original = originalImage

\* C23: handleReset sets originalImage, generatedImage, sceneRefImage and
\* feedback to null, prompt and error to the empty string, showFeedbackOptions
\* and isCompareMode to false and activeView to 'editor'; it leaves history,
\* learningProfile, selectedModel, blending, hasApiKey and loading unchanged
\* and every generation request that is in flight stays in flight.
C23_handleResetEffects ==
  [][handleReset =>
       /\ originalImage' = Null
       /\ generatedImage' = Null
       /\ sceneRefImage' = Null
       /\ feedback' = "null"
       /\ prompt' = <<>>
       /\ error' = ""
       /\ ~showFeedbackOptions'
       /\ ~isCompareMode'
       /\ activeView' = "editor"
       /\ UNCHANGED << history, learningProfile, selectedModel, blending, hasApiKey,
                       loading >>
       /\ GenerationsInFlight' = GenerationsInFlight]_vars

\* C23 witness: the session was reset while a generation was in flight, after
\* a result was recorded, a dislike was given and the slider was moved.
C23_Witness ==
  /\ View = "editor"
  /\ originalImage = Null
  /\ generatedImage = Null
  /\ prompt = <<>>
  /\ loading
  /\ GenerationsInFlight # {}
  /\ Len(history) > 0
  /\ learningProfile # LearningProfileInit
  /\ blending # 50

\* C24: feedback refers to the image on display: when generatedImage changes
\* to a different image, feedback is null and the feedback options are closed
\* in the resulting state; and once feedback is 'liked' or 'disliked' it does
\* not change while generatedImage stays the same.
C24_FeedbackFollowsImage ==
  [][/\ (generatedImage' # generatedImage /\ generatedImage' # Null) =>
          (feedback' = "null" /\ ~showFeedbackOptions')
     /\ (feedback # "null" /\ generatedImage' = generatedImage) =>
          feedback' = feedback]_vars

\* C26: canvasHistory holds at most 5 snapshots; a stroke or a clear pushes
\* the canvas content from before that operation; handleUndo restores the
\* most recently pushed snapshot and removes it, and does nothing when the
\* stack is empty.
C26_UndoStack ==
  [][LET stack == brushEditor.canvasHistory
         kept == SubSeq(stack, IF Len(stack) > 4 THEN Len(stack) - 3 ELSE 1, Len(stack))
     IN /\ Len(brushEditor'.canvasHistory) <= 5
        /\ startDrawing =>
             brushEditor'.canvasHistory = kept \o <<brushEditor.canvas>>
        /\ (\E eager \in BOOLEAN : clearCanvas(eager)) =>
             /\ brushEditor'.canvasHistory = kept \o <<brushEditor.canvas>>
             /\ brushEditor'.canvas = {}
        /\ handleUndo =>
             /\ stack # <<>>
             /\ brushEditor'.canvas = stack[Len(stack)]
             /\ brushEditor'.canvasHistory = SubSeq(stack, 1, Len(stack) - 1)]_vars

\* C27: until the initial key check has resolved isInitialLoad is true and
\* the spinner is shown, neither the connect screen nor a view; when the
\* check resolves hasApiKey is the value hasSelectedApiKey() returned if
\* window.aistudio exists and false otherwise; isInitialLoad never returns
\* to true.
C27_GateStartUp ==
  [][/\ keyCheck # "done" => (isInitialLoad /\ View = "spinner")
     /\ keyCheck' # "done" => (isInitialLoad' /\ View' = "spinner")
     /\ \A has \in BOOLEAN :
          KeyCheckResolve(has) =>
            /\ hasApiKey' = (IF aistudio THEN has ELSE FALSE)
            /\ ~isInitialLoad'
     /\ ~isInitialLoad => ~isInitialLoad']_vars

\* C27 witness: the check has resolved with a selected key and the editor is
\* shown, before anything else happened.
C27_Witness ==
  /\ keyCheck = "done"
  /\ aistudio
  /\ hasApiKey
  /\ ~isInitialLoad
  /\ View = "editor"
  /\ reads = 0
  /\ connecting = 0

\* C28: handleConnect opens the gate only through the key-selection dialog:
\* the handler itself leaves hasApiKey as it is, and once the key check is
\* done hasApiKey becomes true only in a step in which openSelectKey()
\* resolves; where window.aistudio is absent handleConnect changes nothing,
\* hasApiKey is false forever and no editing view is ever shown.
C28_GateOpensThroughDialog ==
  [][/\ (handleConnect \/ handleConnectNoStudio) => UNCHANGED << appVars, childVars >>
     /\ (keyCheck = "done" /\ ~hasApiKey /\ hasApiKey') =>
          (connecting > 0 /\ connecting' = connecting - 1)
     /\ ~aistudio =>
          /\ ~hasApiKey /\ ~hasApiKey'
          /\ View \in {"spinner", "connect"}
          /\ View' \in {"spinner", "connect"}]_vars

\* C28 witness: the key dialog is open and the gate is still closed.
C28_Witness ==
  /\ aistudio
  /\ keyCheck = "done"
  /\ connecting = 1
  /\ ~hasApiKey
  /\ View = "connect"

\* The analyses of the mounted inspector that have not returned.
AnalysesInFlight ==
  {r \in inflight : r.op = "analyzeImage" /\ r.live}

\* C29: entering the inspector view starts one analysis; while it runs the
\* inspector's loading is true and jsonResult is null; when it ends loading
\* is false and jsonResult is the response text, or "{}" when the response
\* has no text, on success, the error JSON on a failure that is no auth
\* error, and still null on an auth error, which closes the key gate.
C29_ExtractionOutcomes ==
  [][/\ (View # "inspector" /\ View' = "inspector") =>
          /\ Cardinality(Started) = 1
          /\ Cardinality(AnalysesInFlight') = 1
          /\ \A r \in AnalysesInFlight' : r.id \in Started
     /\ (View' = "inspector" /\ AnalysesInFlight' # {}) =>
          (promptInspector'.loading /\ promptInspector'.jsonResult = Null)
     /\ \A r \in Ended :
          (r.op = "analyzeImage" /\ r.live) =>
            \A o \in Outcomes(TextResponses) :
              CompleteAnalyzeImage(r, o) =>
                IF ~o.threw
                THEN /\ View' = "inspector"
                     /\ ~promptInspector'.loading
                     /\ promptInspector'.jsonResult =
                          [text |-> IF o.response.text # <<>> THEN o.response.text
                                    ELSE <<"{}">>]
                ELSE IF isAuthError(o.err)
                THEN /\ ~hasApiKey'
                     /\ View' = "connect"
                     /\ ~promptInspector'.loading
                     /\ promptInspector'.jsonResult = Null
                ELSE /\ View' = "inspector"
                     /\ ~promptInspector'.loading
                     /\ promptInspector'.jsonResult =
                          [text |-> <<"{", "error", ":", "Failed to analyze image.", "}">>]]_vars

\* C29 witness: an analysis returned a response without text.
C29_Witness ==
  /\ View = "inspector"
  /\ promptInspector = [jsonResult |-> [text |-> <<"{}">>], loading |-> FALSE]

\* C25: learningProfile.corrections has no duplicates and at most 3 entries
\* and never shrinks; every handleDislike adds 1 to lightingEmphasis for the
\* reason 'lighting' and 1 to blendingStrictness for the reason 'cutout',
\* sets feedback to 'disliked' and closes the feedback options; no other
\* operation, handleReset included, changes the profile.
C25_LearningProfile ==
  [][LET old == learningProfile.corrections
         new == learningProfile'.corrections
     IN /\ \A i, j \in 1..Len(new) : new[i] = new[j] => i = j
        /\ Len(new) <= 3
        /\ Len(new) >= Len(old)
        /\ SubSeq(new, 1, Len(old)) = old
        /\ \A reason \in Reasons :
             handleDislike(reason) =>
               /\ learningProfile'.lightingEmphasis =
                    learningProfile.lightingEmphasis
                      + (IF reason = "lighting" THEN 1 ELSE 0)
               /\ learningProfile'.blendingStrictness =
                    learningProfile.blendingStrictness
                      + (IF reason = "cutout" THEN 1 ELSE 0)
               /\ feedback' = "disliked"
               /\ ~showFeedbackOptions'
        /\ (~ \E reason \in Reasons : handleDislike(reason)) =>
             UNCHANGED learningProfile]_vars

\* C25 witness: lighting was disliked twice and the edges once.
C25_Witness ==
  /\ learningProfile.lightingEmphasis = 2
  /\ learningProfile.blendingStrictness = 1
  /\ Len(learningProfile.corrections) = 2
  /\ feedback = "disliked"

\* C30: the blending level is an integer in 0..100 and every background
\* request carries exactly one blending instruction, chosen by the level at
\* the time it is sent: the cutout instruction for 0..29, the aggressive one
\* for 71..100 and the balanced one for 30..70, both 30 and 70 included.
C30_BlendingInstruction ==
  [][LET cutout == "Keep original subject lighting and colors strictly. Minimal blending with background. Cutout aesthetic."
         aggressive == "Aggressive blending. Heavily relight and color-grade the subject to fully immerse them in the new atmosphere. Modify subject lighting significantly."
         balanced == "Balanced blending. Relight subject naturally to match the environment."
     IN /\ blending' \in 0..100
        /\ \A r \in inflight' :
             (r.id \in Started /\ r.op = "generateNewBackground") =>
               /\ r.sent.extra.strength = blending
               /\ blending \in 0..29 => r.sent.extra.blendingInstruction = cutout
               /\ blending \in 71..100 => r.sent.extra.blendingInstruction = aggressive
               /\ blending \in 30..70 => r.sent.extra.blendingInstruction = balanced]_vars

\* C30 witness: a request sent at level 30 carries the balanced instruction.
C30_Witness ==
  \E r \in inflight :
    /\ r.op = "generateNewBackground"
    /\ r.sent.extra.strength = 30
    /\ r.sent.extra.blendingInstruction =
         "Balanced blending. Relight subject naturally to match the environment."

====
